---- MODULE Spec2Model ----
(***************************************************************************)
(* reap: a Ruby heap dump is read line by line into a reference graph,     *)
(* object kinds are ranked by self size, retained sizes are computed along *)
(* the dominator tree and a relevance-pruned subgraph is exported.         *)
(*                                                                         *)
(* Representation.                                                         *)
(*  - Option<T> is a sequence of length 0 (None) or 1 (Some).  A Result,   *)
(*    and the outcome of a call that may panic, is a record with an `ok`   *)
(*    field: [ok |-> TRUE, value |-> v], or [ok |-> FALSE] for Err and for *)
(*    a panic.  A HashMap is a function with a finite domain.              *)
(*  - Text the program inspects character by character (address strings,   *)
(*    string values) is a sequence of Unicode code points.  Text it only   *)
(*    builds or compares as a whole (kinds, names, labels, report lines)   *)
(*    is a string; a character without a string literal is written in it  *)
(*    as \u{hex}.                                                          *)
(*  - A usize keeps its 64 bits: it is the                                 *)
(*    sequence of its hexadecimal digits (values 0..15), most significant  *)
(*    first, without leading zeros; zero is the empty sequence.  Sizes,    *)
(*    counts and the length/size fields of a record are usize values too.  *)
(*  - An f64 is [class, negative, mantissa, exponent]: the value           *)
(*    mantissa * 2^exponent, the mantissa a hexadecimal numeral as above.  *)
(*  - Node indices are 1-based: the root has index 1 (petgraph's index 0). *)
(*  - The edges of the full graph are kept per source node, in the order   *)
(*    they were added.  parse() adds the edges of one source in the order  *)
(*    of its reference list; the order between sources follows HashMap     *)
(*    iteration, is not fixed by the program and is not represented.       *)
(*  - Where the program's result depends on HashMap/HashSet iteration      *)
(*    order, the operator yields the set of possible results and the       *)
(*    action picks.                                                        *)
(*  - usize arithmetic that leaves 64 bits panics in a build with overflow *)
(*    checks and wraps in one without.  The operators take the setting as  *)
(*    a parameter; a run is built one way or the other, and the variable   *)
(*    overflow_checks holds the setting from the first step on at which    *)
(*    the two builds differ (they behave alike before).                    *)
(***************************************************************************)
EXTENDS Bags, FiniteSets, Integers, Sequences, TLC

VARIABLES
    pc,             \* position of main(): "lines", "parsed", "kinds", "retained", "done";
                    \* where it panicked: "read_panicked", "panicked" (on a line, inside
                    \* parse()), "kinds_panicked", "retained_panicked",
                    \* "stdout_panicked" (in a println!), "threshold_panicked",
                    \* "prune_panicked";
                    \* where it returned an Err: "open_failed", "export_failed"
    overflow_checks, \* Option of the build's overflow-checks setting
    dump,           \* the lines of the input file consumed so far
    graph,          \* ReferenceGraph: [nodes: Seq(Object), edges: node index -> Seq(node index)]
    indices,        \* address -> node index
    references,     \* address -> recorded reference list
    instances,      \* address -> declared class/module address
    names,          \* address -> declared name
    by_kind,        \* kind -> Stats, once stats_by_kind has run
    subtree_sizes,  \* address -> Stats, once dominator_subtree_sizes has run
    subgraph,       \* Option of the pruned graph written to the dot file
    threshold,      \* Option of the relevance threshold used (an f64)
    output          \* what has been emitted so far, in order

vars == <<pc, overflow_checks, dump, graph, indices, references, instances, names, by_kind,
          subtree_sizes, subgraph, threshold, output>>

-----------------------------------------------------------------------------
(* Bounds of the model *)

MaxLines == 4

-----------------------------------------------------------------------------
(* Option, Result and HashMap helpers *)

None == <<>>
Some(v) == <<v>>
IsSome(o) == Len(o) = 1
Unwrap(o) == o[1]

Ok(v) == [ok |-> TRUE, value |-> v]
Err == [ok |-> FALSE]

\* the rest of a computation after a step that may have panicked
Then(result, Rest(_)) == IF result.ok THEN Rest(result.value) ELSE Err

EmptyMap == <<>>
HasKey(m, k) == k \in DOMAIN m
Insert(m, k, v) == [x \in (DOMAIN m) \cup {k} |-> IF x = k THEN v ELSE m[x]]

Reverse(s) == [i \in 1..Len(s) |-> s[Len(s) + 1 - i]]

-----------------------------------------------------------------------------
(* Text: the string that holds one character *)

\* the characters U+0020..U+005F and U+0061..U+007E
AsciiLow ==
    <<" ", "!", "\"", "#", "$", "%", "&", "'", "(", ")", "*", "+", ",", "-", ".", "/",
      "0", "1", "2", "3", "4", "5", "6", "7", "8", "9", ":", ";", "<", "=", ">", "?",
      "@", "A", "B", "C", "D", "E", "F", "G", "H", "I", "J", "K", "L", "M", "N", "O",
      "P", "Q", "R", "S", "T", "U", "V", "W", "X", "Y", "Z", "[", "\\", "]", "^", "_">>

AsciiHigh ==
    <<"a", "b", "c", "d", "e", "f", "g", "h", "i", "j", "k", "l", "m", "n", "o", "p",
      "q", "r", "s", "t", "u", "v", "w", "x", "y", "z", "{", "|", "}", "~">>

HexLower(d) == IF d < 10 THEN AsciiLow[d + 17] ELSE AsciiHigh[d - 9]

RECURSIVE HexText(_)
HexText(n) == IF n < 16 THEN HexLower(n) ELSE HexText(n \div 16) \o HexLower(n % 16)

\* a character as text; one that has no string literal (the grave accent,
\* control and non-ASCII characters) is written \u{hex}
Chr(c) == IF c \in 32..95 THEN AsciiLow[c - 31]
          ELSE IF c \in 97..126 THEN AsciiHigh[c - 96]
          ELSE "\\u{" \o HexText(c) \o "}"

-----------------------------------------------------------------------------
(* usize values as hexadecimal numerals, their decimal rendering and      *)
(* their arithmetic                                                       *)

Zero == <<>>

USIZE_HEX_DIGITS == 16

\* eight decimal digits at a time
DecimalGroup == 100000000

\* the long division of a hexadecimal numeral by 10^8, from digit i on;
\* `next` is the remainder so far with digit i appended
RECURSIVE DivRemGroup(_, _, _, _)
DivRemGroup(digits, i, quot, next) ==
    IF i > Len(digits) THEN [quot |-> quot, rem |-> next]
    ELSE DivRemGroup(digits, i + 1,
                     IF quot = <<>> /\ next \div DecimalGroup = 0 THEN <<>>
                     ELSE Append(quot, next \div DecimalGroup),
                     IF i < Len(digits) THEN (next % DecimalGroup) * 16 + digits[i + 1]
                     ELSE next % DecimalGroup)

\* the eight decimal digits of a number below 10^8
EightDigits(r) ==
    (IF r < 10 THEN "0000000" ELSE IF r < 100 THEN "000000"
     ELSE IF r < 1000 THEN "00000" ELSE IF r < 10000 THEN "0000"
     ELSE IF r < 100000 THEN "000" ELSE IF r < 1000000 THEN "00"
     ELSE IF r < 10000000 THEN "0" ELSE "") \o ToString(r)

RECURSIVE Decimal(_)

\* "{}" of a usize
UsizeToString(n) ==
    IF n = <<>> THEN "0" ELSE Decimal(DivRemGroup(n, 1, <<>>, n[1]))

\* the decimal digits of 10^8 times the quotient plus the remainder
Decimal(d) ==
    IF d.quot = <<>> THEN ToString(d.rem)
    ELSE UsizeToString(d.quot) \o EightDigits(d.rem)

RECURSIVE HexOfNat(_)
HexOfNat(n) == IF n = 0 THEN <<>> ELSE Append(HexOfNat(n \div 16), n % 16)

RECURSIVE StripZeros(_)
StripZeros(digits) ==
    IF digits # <<>> /\ digits[1] = 0 THEN StripZeros(Tail(digits)) ELSE digits

\* digit of h at distance k from its least significant end (0 beyond its length)
DigitFromEnd(h, k) == IF k < Len(h) THEN h[Len(h) - k] ELSE 0

\* the digits of a + b from distance k on, `sum` the digits at k plus the carry
RECURSIVE AddDigits(_, _, _, _, _)
AddDigits(a, b, k, sum, acc) ==
    IF k >= Len(a) /\ k >= Len(b) THEN (IF sum = 1 THEN <<1>> \o acc ELSE acc)
    ELSE AddDigits(a, b, k + 1,
                   DigitFromEnd(a, k + 1) + DigitFromEnd(b, k + 1) + sum \div 16,
                   <<sum % 16>> \o acc)

\* the sum of two numerals, of any length
AddHex(a, b) == AddDigits(a, b, 0, DigitFromEnd(a, 0) + DigitFromEnd(b, 0), <<>>)

\* h * 16^digits
Shl(h, digits) == h \o [i \in 1..digits |-> 0]

\* a < b
UsizeLess(a, b) ==
    \/ Len(a) < Len(b)
    \/ /\ Len(a) = Len(b)
       /\ \E i \in 1..Len(a) : a[i] < b[i] /\ \A j \in 1..(i - 1) : a[j] = b[j]

\* a >= b
UsizeGe(a, b) == ~UsizeLess(a, b)

\* a numeral modulo 2^64
LowDigits(s) ==
    StripZeros(IF Len(s) > USIZE_HEX_DIGITS
               THEN SubSeq(s, Len(s) - USIZE_HEX_DIGITS + 1, Len(s))
               ELSE s)

\* 2^64 - 1 - b, as sixteen digits
Complement(b) == [i \in 1..USIZE_HEX_DIGITS |-> 15 - DigitFromEnd(b, USIZE_HEX_DIGITS - i)]

\* a - b modulo 2^64
WrappingSub(a, b) == LowDigits(AddHex(AddHex(a, Complement(b)), <<1>>))

\* `a + b` on usize: a panic (Err) when the sum leaves 64 bits and the build
\* checks overflow, the sum modulo 2^64 otherwise
Wrapped(sum, checks) ==
    IF checks /\ Len(sum) > USIZE_HEX_DIGITS THEN Err ELSE Ok(LowDigits(sum))

UsizeAdd(a, b, checks) == Wrapped(AddHex(a, b), checks)

\* `a - b` on usize
UsizeSub(a, b, checks) ==
    IF checks /\ UsizeLess(a, b) THEN Err ELSE Ok(WrappingSub(a, b))

-----------------------------------------------------------------------------
(* Line::parse_address: drop the first two bytes, read the rest as hex *)

\* char::to_digit(16)
to_digit(c) ==
    IF c \in 48..57 THEN Some(c - 48)
    ELSE IF c \in 97..102 THEN Some(c - 87)
    ELSE IF c \in 65..70 THEN Some(c - 55)
    ELSE None

\* the digit loop: Err on a character that is no digit and on a value that
\* leaves 64 bits (a seventeenth significant digit)
RECURSIVE FromDigits(_, _)
FromDigits(digits, result) ==
    IF digits = <<>> THEN Ok(result)
    ELSE IF ~IsSome(to_digit(digits[1])) THEN Err
    ELSE IF Len(result) = USIZE_HEX_DIGITS THEN Err
    ELSE FromDigits(Tail(digits),
                    IF result = <<>> /\ Unwrap(to_digit(digits[1])) = 0
                    THEN <<>>
                    ELSE Append(result, Unwrap(to_digit(digits[1]))))

\* usize::from_str_radix(src, 16): Err on empty text, a lone sign, a minus
\* sign, a non-digit and overflow; one leading '+' is accepted
from_str_radix(src) ==
    IF src = <<>> THEN Err
    ELSE IF Len(src) = 1 /\ src[1] \in {43, 45} THEN Err
    ELSE IF src[1] = 43 THEN FromDigits(Tail(src), <<>>)
    ELSE FromDigits(src, <<>>)

\* length of a character in UTF-8
len_utf8(c) == IF c < 128 THEN 1 ELSE IF c < 2048 THEN 2 ELSE IF c < 65536 THEN 3 ELSE 4

\* &addr[2..]: panics when byte 2 is past the end or inside a character
SliceFromTwo(addr) ==
    IF addr = <<>> THEN Err
    ELSE IF len_utf8(addr[1]) = 2 THEN Ok(Tail(addr))
    ELSE IF len_utf8(addr[1]) = 1 /\ Len(addr) >= 2 /\ len_utf8(addr[2]) = 1
         THEN Ok(Tail(Tail(addr)))
    ELSE Err

\* Ok(address), or Err when the slice or the unwrap panics
parse_address(addr) ==
    IF ~SliceFromTwo(addr).ok THEN Err
    ELSE from_str_radix(SliceFromTwo(addr).value)

-----------------------------------------------------------------------------
(* Object, Stats *)

Stats(count, bytes) == [count |-> count, bytes |-> bytes]

StatsDefault == Stats(Zero, Zero)

\* the struct of the two sums, unless one of the additions panicked
StatsOfSums(count, bytes) ==
    IF count.ok /\ bytes.ok THEN Ok(Stats(count.value, bytes.value)) ELSE Err

\* Stats::add: Ok of the sum, or Err when an addition panics
StatsAdd(self, other, checks) ==
    StatsOfSums(UsizeAdd(self.count, other.count, checks),
                UsizeAdd(self.bytes, other.bytes, checks))

ObjectStats(obj) == Stats(<<1>>, obj.bytes)

ObjectRoot == [address |-> Zero, bytes |-> Zero, kind |-> "ROOT", label |-> Some("root")]

is_root(obj) == obj.address = Zero

\* impl Display for Object
Display(obj) ==
    IF IsSome(obj.label) THEN Unwrap(obj.label)
    ELSE obj.kind \o "[" \o UsizeToString(obj.address) \o "]"

-----------------------------------------------------------------------------
(* Line::parse *)

LabelTake == 40

\* char::is_control: the Unicode category Cc
is_control(c) == c \in (0..31) \cup (127..159)

Backslash == 92
BackslashGlyph == 65128

Take(s, n) == SubSeq(s, 1, IF Len(s) < n THEN Len(s) ELSE n)

RECURSIVE EscapeChars(_)
EscapeChars(cs) ==
    IF cs = <<>> THEN ""
    ELSE (IF is_control(cs[1]) THEN ""
          ELSE IF cs[1] = Backslash THEN Chr(BackslashGlyph)
          ELSE Chr(cs[1]))
         \o EscapeChars(Tail(cs))

\* the label match of Line::parse; the array and hash arms are reached only
\* with the field present (the `?` returned before)
LineLabel(line, kind) ==
    IF kind \in {"CLASS", "MODULE", "ICLASS"} THEN
        IF IsSome(line.name)
        THEN Some(Unwrap(line.name) \o "[" \o kind \o "]")
        ELSE None
    ELSE IF kind = "ARRAY" THEN
        Some("Array[len=" \o UsizeToString(Unwrap(line.length)) \o "]")
    ELSE IF kind = "HASH" THEN
        Some("Hash[size=" \o UsizeToString(Unwrap(line.size)) \o "]")
    ELSE IF kind = "STRING" THEN
        IF IsSome(line.value)
        THEN Some(EscapeChars(Take(Unwrap(line.value), LabelTake)))
        ELSE None
    ELSE None

\* the rest of Line::parse once the address is known
LineParseAt(line, address) ==
    IF address = Zero /\ line.object_type # "ROOT" THEN Ok(None)
    ELSE IF line.object_type = "ARRAY" /\ ~IsSome(line.length) THEN Ok(None)
    ELSE IF line.object_type = "HASH" /\ ~IsSome(line.size) THEN Ok(None)
    ELSE IF \E i \in 1..Len(line.references) : ~parse_address(line.references[i]).ok
         THEN Err
    ELSE IF IsSome(line.class) /\ ~parse_address(Unwrap(line.class)).ok THEN Err
    ELSE Ok(Some([object |-> [address |-> address,
                              bytes |-> IF IsSome(line.memsize)
                                        THEN Unwrap(line.memsize) ELSE Zero,
                              kind |-> line.object_type,
                              label |-> LineLabel(line, line.object_type)],
                  references |-> [i \in 1..Len(line.references) |->
                                      parse_address(line.references[i]).value],
                  module |-> IF IsSome(line.class)
                             THEN Some(parse_address(Unwrap(line.class)).value)
                             ELSE None,
                  name |-> line.name]))

\* Ok(Option<ParsedLine>), or Err when parse_address panics
LineParse(line) ==
    IF ~IsSome(line.address) THEN LineParseAt(line, Zero)
    ELSE IF ~parse_address(Unwrap(line.address)).ok THEN Err
    ELSE LineParseAt(line, parse_address(Unwrap(line.address)).value)

-----------------------------------------------------------------------------
Init ==
    /\ pc = "lines"
    /\ overflow_checks = None
    /\ dump = <<>>
    /\ graph = [nodes |-> <<ObjectRoot>>, edges |-> EmptyMap]
    /\ indices = Insert(EmptyMap, Zero, 1)
    /\ references = Insert(EmptyMap, Zero, <<>>)
    /\ instances = EmptyMap
    /\ names = EmptyMap
    /\ by_kind = EmptyMap
    /\ subtree_sizes = EmptyMap
    /\ subgraph = None
    /\ threshold = None
    /\ output = <<>>

-----------------------------------------------------------------------------
(* parse().  File::open can fail, and main returns the error.  In the loop  *)
(* a line that cannot be read, a line that does not decode, a line for      *)
(* which Line::parse returns None and a line whose address text makes       *)
(* parse_address panic all end the run inside parse().                      *)

\* File::open(file)? returns an Err
OpenFails ==
    /\ pc = "lines"
    /\ dump = <<>>
    /\ pc' = "open_failed"
    /\ UNCHANGED <<overflow_checks, dump, graph, indices, references, instances, names,
                   by_kind, subtree_sizes, subgraph, threshold, output>>

\* reader.lines() yields an Err (an I/O error, text that is not UTF-8) and
\* l.unwrap() panics
ReadFails ==
    /\ pc = "lines"
    /\ pc' = "read_panicked"
    /\ UNCHANGED <<overflow_checks, dump, graph, indices, references, instances, names,
                   by_kind, subtree_sizes, subgraph, threshold, output>>

\* the rest of the loop body, given the outcome of decoding and `.parse()`
ReadParsed(line, decoded) ==
    /\ pc = "lines"
    /\ Len(dump) < MaxLines
    /\ dump' = Append(dump, line)
    /\ UNCHANGED <<overflow_checks, by_kind, subtree_sizes, subgraph, threshold, output>>
    /\ IF ~decoded.ok
       THEN /\ pc' = "panicked"
            /\ UNCHANGED <<graph, indices, references, instances, names>>
       ELSE IF decoded.value = None
       THEN /\ pc' = "panicked"
            /\ UNCHANGED <<graph, indices, references, instances, names>>
       ELSE \E parsed \in {Unwrap(decoded.value)} :
            \E address \in {parsed.object.address} :
                /\ pc' = pc
                /\ IF is_root(parsed.object)
                   THEN /\ references' = [references EXCEPT ![Zero] = @ \o parsed.references]
                        /\ UNCHANGED <<graph, indices, instances, names>>
                   ELSE /\ graph' = [graph EXCEPT !.nodes = Append(@, parsed.object)]
                        /\ indices' = Insert(indices, address, Len(graph.nodes) + 1)
                        /\ references' = IF parsed.references # <<>>
                                         THEN Insert(references, address, parsed.references)
                                         ELSE references
                        /\ instances' = IF IsSome(parsed.module)
                                        THEN Insert(instances, address, Unwrap(parsed.module))
                                        ELSE instances
                        /\ names' = IF IsSome(parsed.name)
                                    THEN Insert(names, address, Unwrap(parsed.name))
                                    ELSE names

\* faulty variant: a line that does not decode is skipped and reading goes on
ReadLineSkippingMalformed(line) ==
    IF line.malformed
    THEN /\ pc = "lines"
         /\ Len(dump) < MaxLines
         /\ dump' = Append(dump, line)
         /\ UNCHANGED <<pc, overflow_checks, graph, indices, references, instances,
                        names, by_kind, subtree_sizes, subgraph, threshold, output>>
    ELSE ReadParsed(line, LineParse(line))

ReadLine(line) ==
    ReadParsed(line, IF line.malformed THEN Err ELSE LineParse(line))

\* the references of one source that resolve, as node indices, in list order
Resolved(idx, successors) ==
    [p \in 1..Len(SelectSeq(successors, LAMBDA s : s \in DOMAIN idx)) |->
        idx[SelectSeq(successors, LAMBDA s : s \in DOMAIN idx)[p]]]

RECURSIVE FirstOccurrences(_, _)
FirstOccurrences(s, seen) ==
    IF s = <<>> THEN <<>>
    ELSE IF s[1] \in seen THEN FirstOccurrences(Tail(s), seen)
    ELSE <<s[1]>> \o FirstOccurrences(Tail(s), seen \cup {s[1]})

\* faulty variant: an edge is added once per pair, however often it is referenced
ResolvedEdgesOnce(idx, refs) ==
    [i \in {idx[a] : a \in DOMAIN refs} |->
        FirstOccurrences(Resolved(idx, refs[CHOOSE a \in DOMAIN refs : idx[a] = i]), {})]

\* second loop of parse(): one edge per recorded reference whose target has an index
ResolvedEdges(idx, refs) ==
    [i \in {idx[a] : a \in DOMAIN refs} |->
        Resolved(idx, refs[CHOOSE a \in DOMAIN refs : idx[a] = i])]

\* faulty variant: the name is looked up under the object's own address
ResolveKindByOwnName(obj, inst, nms) ==
    IF HasKey(inst, obj.address) /\ HasKey(nms, obj.address)
    THEN [obj EXCEPT !.kind = nms[obj.address]]
    ELSE obj

\* third loop of parse(): kind taken from the name of the declared class/module
ResolveKind(obj, inst, nms) ==
    IF HasKey(inst, obj.address) /\ HasKey(nms, inst[obj.address])
    THEN [obj EXCEPT !.kind = nms[inst[obj.address]]]
    ELSE obj

ResolvedKinds(nodes, inst, nms) ==
    [i \in 1..Len(nodes) |-> ResolveKind(nodes[i], inst, nms)]

\* end of input: the edge loop, the kind loop and the return of parse()
EndOfInput ==
    /\ pc = "lines"
    /\ pc' = "parsed"
    /\ graph' = [nodes |-> ResolvedKinds(graph.nodes, instances, names),
                 edges |-> ResolvedEdges(indices, references)]
    /\ UNCHANGED <<overflow_checks, dump, indices, references, instances, names,
                   by_kind, subtree_sizes, subgraph, threshold, output>>

-----------------------------------------------------------------------------
(* stats_by_kind and print_largest *)

\* the loop of stats_by_kind from node i on; Err when Stats::add panics
RECURSIVE StatsByKindFrom(_, _, _, _)
StatsByKindFrom(g, i, acc, checks) ==
    IF i > Len(g.nodes) THEN Ok(acc)
    ELSE IF ~HasKey(acc, g.nodes[i].kind)
    THEN StatsByKindFrom(g, i + 1, Insert(acc, g.nodes[i].kind, ObjectStats(g.nodes[i])),
                         checks)
    ELSE Then(StatsAdd(acc[g.nodes[i].kind], ObjectStats(g.nodes[i]), checks),
              LAMBDA sum : StatsByKindFrom(g, i + 1,
                                           [acc EXCEPT ![g.nodes[i].kind] = sum], checks))

stats_by_kind(g, checks) == StatsByKindFrom(g, 1, EmptyMap, checks)

\* the orders in which `sorted.iter().rev()` can yield the entries: descending
\* bytes, entries of equal bytes in any order (an unstable sort of the
\* entries in HashMap iteration order)
RECURSIVE SortedRev(_, _)
SortedRev(map, keys) ==
    IF keys = {} THEN {<<>>}
    ELSE UNION {{<<k>> \o rest : rest \in SortedRev(map, keys \ {k})} :
                   k \in {x \in keys : \A y \in keys : UsizeGe(map[x].bytes, map[y].bytes)}}

\* the fold of Stats::add over the skipped entries; Err when it panics
RECURSIVE SumStats(_, _, _, _)
SumStats(map, skipped, acc, checks) ==
    IF skipped = <<>> THEN Ok(acc)
    ELSE Then(StatsAdd(acc, map[skipped[1]], checks),
              LAMBDA sum : SumStats(map, Tail(skipped), sum, checks))

StatsLine(key, stats) ==
    key \o ": " \o UsizeToString(stats.bytes) \o " bytes ("
        \o UsizeToString(stats.count) \o " objects)"

\* what one order of the entries prints while stdout takes every line: the
\* top lines and then, unless the fold over the rest panics, the "..." line
PrintedLines(map, shown, order, count, rest) ==
    [printed |->
        [i \in 1..(IF Len(order) < count THEN Len(order) ELSE count) |->
            StatsLine(shown[order[i]], map[order[i]])]
        \o (IF rest.ok THEN <<StatsLine("...", rest.value)>> ELSE <<>>),
     ok |-> rest.ok,
     stdout |-> TRUE]

\* println! panics when the write to stdout fails: the lines before the one
\* that failed are out, the call has not returned
StdoutFails(lines) ==
    {[printed |-> SubSeq(lines, 1, k), ok |-> FALSE, stdout |-> FALSE] :
        k \in 0..(Len(lines) - 1)}

\* shown[k] is the Display of key k; the result is the set of printouts the
\* call can produce, each with whether the call returned (ok) or panicked,
\* and whether stdout took every line (stdout) or a println! panicked
print_largest(map, shown, count, checks) ==
    UNION {{full} \cup StdoutFails(full.printed) :
              full \in {PrintedLines(map, shown, order, count,
                                     SumStats(map,
                                              IF Len(order) <= count THEN <<>>
                                              ELSE SubSeq(order, count + 1, Len(order)),
                                              StatsDefault, checks)) :
                           order \in SortedRev(map, DOMAIN map)}}

\* where main is after a report
After(report, returned, panicked) ==
    IF report.ok THEN returned
    ELSE IF report.stdout THEN panicked
    ELSE "stdout_panicked"

\* The numbers of lines after which stdout fails, in the runs in which it
\* does: at the first title, in the first table, and in the first or the
\* second report.
StdoutLimits == {0, 2, 5}

\* the outcomes of a report on a stdout that takes every line or fails after
\* one of StdoutLimits lines in all
OnStdout(report) ==
    report.stdout \/ Len(output) + Len(report.printed) \in StdoutLimits

\* no addition of the report left the range of usize with overflow checks:
\* the report is the same without them
SameInBothBuilds(with_checks) == \A report \in with_checks : report.ok \/ ~report.stdout

KindsShown == 10
ObjectsShown == 25

\* the builds a run can still be of
Builds == IF IsSome(overflow_checks) THEN {Unwrap(overflow_checks)} ELSE BOOLEAN

\* the setting after a step taken with `checks`: known once the step comes
\* out differently with and without overflow checks.  A step that does not
\* panic with the checks had no overflow, and is the same without them.
Observed(checks, with_checks, without_checks) ==
    IF with_checks = without_checks THEN overflow_checks ELSE Some(checks)

\* main, first report: the outcomes of stats_by_kind, the title and print_largest
KindsReport(g, by_kind_result, checks) ==
    IF ~by_kind_result.ok
    THEN {[ok |-> FALSE, stdout |-> TRUE, by_kind |-> EmptyMap, printed |-> <<>>]}
    ELSE {[ok |-> FALSE, stdout |-> FALSE, by_kind |-> by_kind_result.value,
           printed |-> <<>>]}
         \cup
         {[ok |-> p.ok, stdout |-> p.stdout, by_kind |-> by_kind_result.value,
           printed |-> <<"Object types using the most memory:">> \o p.printed] :
             p \in print_largest(by_kind_result.value,
                                 [k \in DOMAIN by_kind_result.value |-> k],
                                 KindsShown, checks)}

StatsByKind ==
    /\ pc = "parsed"
    /\ \E with_checks \in {KindsReport(graph, stats_by_kind(graph, TRUE), TRUE)} :
       \E without_checks \in
             {IF SameInBothBuilds(with_checks) THEN with_checks
              ELSE KindsReport(graph, stats_by_kind(graph, FALSE), FALSE)} :
       \E checks \in Builds :
       \E report \in (IF checks THEN with_checks ELSE without_checks) :
          /\ OnStdout(report)
          /\ overflow_checks' = Observed(checks, with_checks, without_checks)
          /\ pc' = After(report, "kinds", "kinds_panicked")
          /\ by_kind' = report.by_kind
          /\ output' = output \o report.printed
    /\ UNCHANGED <<dump, graph, indices, references, instances, names,
                   subtree_sizes, subgraph, threshold>>

-----------------------------------------------------------------------------
(* petgraph: Graph::neighbors, DfsPostOrder and                             *)
(* algo::dominators::simple_fast (Cooper, Harvey, Kennedy)                  *)

\* outgoing neighbours, the most recently added edge first
neighbors(g, n) == IF n \in DOMAIN g.edges THEN Reverse(g.edges[n]) ELSE <<>>

Successors(g, n) == {neighbors(g, n)[p] : p \in 1..Len(neighbors(g, n))}

\* DfsPostOrder::next, run to the end: a node on top of the stack is either
\* seen for the first time (its undiscovered neighbours are pushed) or popped
\* and, unless already finished, emitted
RECURSIVE DfsPostOrder(_, _, _, _, _)
DfsPostOrder(g, stack, discovered, finished, post) ==
    IF stack = <<>> THEN post
    ELSE IF stack[Len(stack)] \notin discovered
    THEN DfsPostOrder(g,
             stack \o SelectSeq(neighbors(g, stack[Len(stack)]),
                                LAMBDA s : s \notin discovered \cup {stack[Len(stack)]}),
             discovered \cup {stack[Len(stack)]}, finished, post)
    ELSE IF stack[Len(stack)] \notin finished
    THEN DfsPostOrder(g, SubSeq(stack, 1, Len(stack) - 1), discovered,
                      finished \cup {stack[Len(stack)]}, Append(post, stack[Len(stack)]))
    ELSE DfsPostOrder(g, SubSeq(stack, 1, Len(stack) - 1), discovered, finished, post)

\* predecessor_sets: for every visited node, each of its neighbours gets it
\* as a predecessor
PredecessorSets(g, post_order) ==
    [s \in UNION {Successors(g, post_order[i]) : i \in 1..Len(post_order)} |->
        {post_order[i] : i \in {j \in 1..Len(post_order) : s \in Successors(g, post_order[j])}}]

simple_fast_post_order(g, root) ==
    [post_order |-> DfsPostOrder(g, <<root>>, {}, {}, <<>>),
     predecessor_sets |-> PredecessorSets(g, DfsPostOrder(g, <<root>>, {}, {}, <<>>))]

PostIndex(post_order, n) == CHOOSE i \in 1..Len(post_order) : post_order[i] = n

\* the orders in which a HashSet can be iterated
RECURSIVE Iterations(_)
Iterations(S) ==
    IF S = {} THEN {<<>>}
    ELSE UNION {{<<x>> \o rest : rest \in Iterations(S \ {x})} : x \in S}

\* predecessor_sets_to_idx_vecs: per post-order index the predecessors as
\* post-order indices, in the iteration order of the node's HashSet; the
\* result is the set of vectors the call can produce, from index i on
RECURSIVE predecessor_sets_to_idx_vecs(_, _, _)
predecessor_sets_to_idx_vecs(post_order, predecessor_sets, i) ==
    IF i > Len(post_order) THEN {<<>>}
    ELSE {<<[p \in 1..Len(first) |-> PostIndex(post_order, first[p])]>> \o rest :
             first \in Iterations(IF post_order[i] \in DOMAIN predecessor_sets
                                  THEN predecessor_sets[post_order[i]] ELSE {}),
             rest \in predecessor_sets_to_idx_vecs(post_order, predecessor_sets, i + 1)}

\* usize::MAX in petgraph; no post-order index of the model is 0
UNDEFINED == 0

RECURSIVE intersect(_, _, _)
intersect(dominators, finger1, finger2) ==
    IF finger1 < finger2 THEN intersect(dominators, dominators[finger1], finger2)
    ELSE IF finger1 > finger2 THEN intersect(dominators, finger1, dominators[finger2])
    ELSE finger1

RECURSIVE FoldIntersect(_, _, _)
FoldIntersect(dominators, acc, rest) ==
    IF rest = <<>> THEN acc
    ELSE FoldIntersect(dominators, intersect(dominators, acc, rest[1]), Tail(rest))

\* the predecessors that already have a dominator, folded with intersect
NewIdom(predecessors, dominators) ==
    FoldIntersect(dominators,
                  SelectSeq(predecessors, LAMBDA p : dominators[p] # UNDEFINED)[1],
                  Tail(SelectSeq(predecessors, LAMBDA p : dominators[p] # UNDEFINED)))

\* one sweep in reverse post order, the root (the last index) skipped
RECURSIVE DomSweep(_, _, _, _)
DomSweep(preds, dominators, idx, changed) ==
    IF idx = 0 THEN [dominators |-> dominators, changed |-> changed]
    ELSE IF NewIdom(preds[idx], dominators) # dominators[idx]
    THEN DomSweep(preds, [dominators EXCEPT ![idx] = NewIdom(preds[idx], dominators)],
                  idx - 1, TRUE)
    ELSE DomSweep(preds, dominators, idx - 1, changed)

RECURSIVE DomLoop(_, _)
DomLoop(preds, dominators) ==
    IF DomSweep(preds, dominators, Len(dominators) - 1, FALSE).changed
    THEN DomLoop(preds, DomSweep(preds, dominators, Len(dominators) - 1, FALSE).dominators)
    ELSE dominators

\* Dominators { root, dominators: node -> immediate dominator }
Dominators(root, post_order, dominators) ==
    [root |-> root,
     dominators |-> [n \in {post_order[i] : i \in 1..Len(post_order)} |->
                        post_order[dominators[PostIndex(post_order, n)]]]]

SimpleFastOver(root, order) ==
    {Dominators(root, order.post_order,
                DomLoop(preds, [i \in 1..Len(order.post_order) |->
                                   IF i = Len(order.post_order) THEN i ELSE UNDEFINED])) :
        preds \in predecessor_sets_to_idx_vecs(order.post_order, order.predecessor_sets, 1)}

\* the set of results over the iteration orders of the predecessor sets
simple_fast(g, root) == SimpleFastOver(root, simple_fast_post_order(g, root))

immediate_dominator(tree, node) ==
    IF node = tree.root THEN None
    ELSE IF node \in DOMAIN tree.dominators THEN Some(tree.dominators[node])
    ELSE None

-----------------------------------------------------------------------------
(* dominator_subtree_sizes: the table is keyed by &Object, which hashes and *)
(* compares by address                                                      *)

RECURSIVE OwnSizes(_, _, _)
OwnSizes(g, i, table) ==
    IF i > Len(g.nodes) THEN table
    ELSE OwnSizes(g, i + 1, Insert(table, g.nodes[i].address, ObjectStats(g.nodes[i])))

\* the while-let walk up the chain of immediate dominators of node i; Err
\* when Stats::add panics
RECURSIVE Propagate(_, _, _, _, _, _)
Propagate(g, tree, table, i, stats, checks) ==
    IF ~IsSome(immediate_dominator(tree, i)) THEN Ok(table)
    ELSE Then(StatsAdd(table[g.nodes[Unwrap(immediate_dominator(tree, i))].address],
                       stats, checks),
              LAMBDA sum :
                  Propagate(g, tree,
                            [table EXCEPT
                                ![g.nodes[Unwrap(immediate_dominator(tree, i))].address] = sum],
                            Unwrap(immediate_dominator(tree, i)), stats, checks))

RECURSIVE PropagateAll(_, _, _, _, _)
PropagateAll(g, tree, i, table, checks) ==
    IF i > Len(g.nodes) THEN Ok(table)
    ELSE Then(Propagate(g, tree, table, i, ObjectStats(g.nodes[i]), checks),
              LAMBDA next : PropagateAll(g, tree, i + 1, next, checks))

\* the set of results over the results of simple_fast: Ok of the table, or
\* Err when the call panics
dominator_subtree_sizes(root, g, checks) ==
    {PropagateAll(g, tree, 1, OwnSizes(g, 1, EmptyMap), checks) :
        tree \in simple_fast(g, root)}

\* the key a table entry was first inserted under: the first node of that address
KeyObject(g, address) ==
    g.nodes[CHOOSE i \in 1..Len(g.nodes) :
                /\ g.nodes[i].address = address
                /\ \A j \in 1..(i - 1) : g.nodes[j].address # address]

\* main, second report: the outcomes of dominator_subtree_sizes, the title
\* and print_largest
RetainedReport(g, sizes_results, checks) ==
    UNION {IF ~sizes.ok
           THEN {[ok |-> FALSE, stdout |-> TRUE, subtree_sizes |-> EmptyMap,
                  printed |-> <<>>]}
           ELSE {[ok |-> FALSE, stdout |-> FALSE, subtree_sizes |-> sizes.value,
                  printed |-> <<>>]}
                \cup
                {[ok |-> p.ok, stdout |-> p.stdout, subtree_sizes |-> sizes.value,
                  printed |-> <<"\nObjects retaining the most memory:">> \o p.printed] :
                    p \in print_largest(sizes.value,
                                        [a \in DOMAIN sizes.value |->
                                            Display(KeyObject(g, a))],
                                        ObjectsShown, checks)} :
           sizes \in sizes_results}

DominatorSubtreeSizes ==
    /\ pc = "kinds"
    /\ \E with_checks \in
             {RetainedReport(graph, dominator_subtree_sizes(1, graph, TRUE), TRUE)} :
       \E without_checks \in
             {IF SameInBothBuilds(with_checks) THEN with_checks
              ELSE RetainedReport(graph, dominator_subtree_sizes(1, graph, FALSE), FALSE)} :
       \E checks \in Builds :
       \E report \in (IF checks THEN with_checks ELSE without_checks) :
          /\ OnStdout(report)
          /\ overflow_checks' = Observed(checks, with_checks, without_checks)
          /\ pc' = After(report, "retained", "retained_panicked")
          /\ subtree_sizes' = report.subtree_sizes
          /\ output' = output \o report.printed
    /\ UNCHANGED <<dump, graph, indices, references, instances, names,
                   by_kind, subgraph, threshold>>

-----------------------------------------------------------------------------
(* f64 arithmetic of the threshold: `bytes as f64 * t`, floor, `as usize`.  *)
(* An f64 is negative, mantissa (a hexadecimal numeral) and exponent: the   *)
(* value mantissa * 2^exponent.  The conversion and the product are each    *)
(* formed exactly and rounded on their bits (most significant first, no     *)
(* leading zero bit).                                                       *)

F64_MANTISSA_BITS == 53
USIZE_BITS == 64

F64(negative, mantissa, exponent) ==
    [class |-> "finite", negative |-> negative, mantissa |-> mantissa,
     exponent |-> exponent]

\* h * r for a factor r below 2^16, digit by digit from the least significant
RECURSIVE MulDigits(_, _, _, _, _)
MulDigits(h, r, i, carry, acc) ==
    IF i = 0 THEN HexOfNat(carry) \o acc
    ELSE MulDigits(h, r, i - 1, (h[i] * r + carry) \div 16,
                   <<(h[i] * r + carry) % 16>> \o acc)

MulSmall(h, r) == IF r = 0 THEN <<>> ELSE MulDigits(h, r, Len(h), 0, <<>>)

\* the value of at most four digits
Chunk(d) ==
    IF d = <<>> THEN 0
    ELSE IF Len(d) = 1 THEN d[1]
    ELSE IF Len(d) = 2 THEN 16 * d[1] + d[2]
    ELSE IF Len(d) = 3 THEN 256 * d[1] + 16 * d[2] + d[3]
    ELSE 4096 * d[1] + 256 * d[2] + 16 * d[3] + d[4]

\* a * b, four digits of b at a time from its most significant end; acc is
\* the product of a and the digits of b before position i
RECURSIVE MulFrom(_, _, _, _)
MulFrom(a, b, i, acc) ==
    IF i > Len(b) THEN acc
    ELSE IF i + 3 > Len(b)
    THEN AddHex(Shl(acc, Len(b) - i + 1), MulSmall(a, Chunk(SubSeq(b, i, Len(b)))))
    ELSE MulFrom(a, b, i + 4,
                 AddHex(Shl(acc, 4), MulSmall(a, Chunk(SubSeq(b, i, i + 3)))))

\* the exact product of two numerals
MulHex(a, b) == StripZeros(MulFrom(a, b, 1, <<>>))

NibbleWeights == <<8, 4, 2, 1>>

\* the bits of a numeral, without the leading zero bits of its first digit
BitsOfHex(h) ==
    IF h = <<>> THEN <<>>
    ELSE SubSeq([i \in 1..(4 * Len(h)) |->
                    (h[(i + 3) \div 4] \div NibbleWeights[((i - 1) % 4) + 1]) % 2],
                (IF h[1] >= 8 THEN 1 ELSE IF h[1] >= 4 THEN 2
                 ELSE IF h[1] >= 2 THEN 3 ELSE 4),
                4 * Len(h))

\* bit of b at distance k from its least significant end (0 beyond its length)
BitFromEnd(b, k) == IF k < Len(b) THEN b[Len(b) - k] ELSE 0

HexOfBits(b) ==
    [j \in 1..((Len(b) + 3) \div 4) |->
        8 * BitFromEnd(b, 4 * (((Len(b) + 3) \div 4) - j) + 3)
      + 4 * BitFromEnd(b, 4 * (((Len(b) + 3) \div 4) - j) + 2)
      + 2 * BitFromEnd(b, 4 * (((Len(b) + 3) \div 4) - j) + 1)
      + BitFromEnd(b, 4 * (((Len(b) + 3) \div 4) - j))]

\* b + 1
Increment(b) ==
    IF \A i \in 1..Len(b) : b[i] = 1 THEN <<1>> \o [i \in 1..Len(b) |-> 0]
    ELSE [i \in 1..Len(b) |->
             IF \E k \in (i + 1)..Len(b) : b[k] = 0 THEN b[i]
             ELSE IF b[i] = 0 THEN 1 ELSE 0]

\* an exact value rounded to 53 significant bits, ties to even:
\* the value is mantissa * 2^shift
RoundToNearestEven(p) ==
    IF Len(p) <= F64_MANTISSA_BITS THEN [mantissa |-> p, shift |-> 0]
    ELSE [mantissa |->
             IF /\ p[F64_MANTISSA_BITS + 1] = 1
                /\ \/ p[F64_MANTISSA_BITS] = 1
                   \/ \E i \in (F64_MANTISSA_BITS + 2)..Len(p) : p[i] = 1
             THEN Increment(SubSeq(p, 1, F64_MANTISSA_BITS))
             ELSE SubSeq(p, 1, F64_MANTISSA_BITS),
          shift |-> Len(p) - F64_MANTISSA_BITS]

\* floor(mantissa * 2^shift) for a non-negative value
Floor(mantissa, shift) ==
    IF mantissa = <<>> THEN <<>>
    ELSE IF shift >= 0 THEN mantissa \o [i \in 1..shift |-> 0]
    ELSE IF -shift >= Len(mantissa) THEN <<>>
    ELSE SubSeq(mantissa, 1, Len(mantissa) + shift)

UsizeMax == [i \in 1..USIZE_HEX_DIGITS |-> 15]

\* `as usize` of a non-negative integral f64: saturating
AsUsize(bits) == IF Len(bits) > USIZE_BITS THEN UsizeMax ELSE HexOfBits(bits)


\* `bytes as f64`
UsizeAsF64(bytes) == RoundToNearestEven(BitsOfHex(bytes))

\* bytes_f64 * t for a finite t that is not negative
F64Mul(bytes_f64, t) ==
    [rounded |-> RoundToNearestEven(BitsOfHex(MulHex(HexOfBits(bytes_f64.mantissa),
                                                     t.mantissa))),
     exponent |-> bytes_f64.shift + t.exponent]

\* .floor() as usize of a product
FloorAsUsize(product) ==
    AsUsize(Floor(product.rounded.mantissa, product.rounded.shift + product.exponent))

\* (root_bytes as f64 * t).floor() as usize; NaN and negative values cast to 0
ThresholdBytes(root_bytes, t) ==
    IF t.class = "nan" THEN Zero
    ELSE IF t.class = "infinite"
    THEN (IF root_bytes = Zero \/ t.negative THEN Zero ELSE UsizeMax)
    ELSE IF t.negative THEN Zero
    ELSE FloorAsUsize(F64Mul(UsizeAsF64(root_bytes), t))

-----------------------------------------------------------------------------
(* relevant_subgraph.  The surviving nodes keep their index of the full     *)
(* graph here (petgraph renumbers them as it removes nodes), and the edges  *)
(* of the pruned graph are a bag of <<source, target>> pairs: their order   *)
(* in the pruned graph follows the removals and is not represented.         *)

\* 0.005 as an f64: 0x1.47ae147ae147bp-8
DEFAULT_RELEVANCE_THRESHOLD == F64(FALSE, <<1, 4, 7, 10, 14, 1, 4, 7, 10, 14, 1, 4, 7, 11>>, -60)

\* faulty variant: the comparison with the threshold is strict
RetainNodesStrict(g, sizes, threshold_bytes) ==
    {n \in 1..Len(g.nodes) :
        /\ UsizeGe(sizes[g.nodes[n].address].bytes, threshold_bytes)
        /\ sizes[g.nodes[n].address].bytes # threshold_bytes}

RetainNodes(g, sizes, threshold_bytes) ==
    {n \in 1..Len(g.nodes) : UsizeGe(sizes[g.nodes[n].address].bytes, threshold_bytes)}

\* number of edges from e[1] to e[2] in the full graph
EdgeCount(edges, e) ==
    IF e[1] \in DOMAIN edges
    THEN Cardinality({p \in 1..Len(edges[e[1]]) : edges[e[1]][p] = e[2]})
    ELSE 0

EdgePairs(edges) ==
    UNION {{<<v, edges[v][p]>> : p \in 1..Len(edges[v])} : v \in DOMAIN edges}

\* faulty variant: self-loops are removed but parallel edges are all kept
RetainEdgesParallel(edges, keep) ==
    [e \in {d \in EdgePairs(edges) : d[1] \in keep /\ d[2] \in keep /\ d[1] # d[2]} |->
        EdgeCount(edges, e)]

\* retain_edges: no self-loop, and only one edge of each ordered pair
RetainEdges(edges, keep) ==
    [e \in {d \in EdgePairs(edges) : d[1] \in keep /\ d[2] \in keep /\ d[1] # d[2]} |-> 1]

\* the label of format!, given the outcome of `bytes - obj.bytes`
Relabelled(obj, refs, count) ==
    IF ~refs.ok THEN Err
    ELSE Ok([obj EXCEPT !.label =
                Some(Display(obj) \o ": " \o UsizeToString(obj.bytes) \o "b self, "
                     \o UsizeToString(refs.value) \o "b refs, "
                     \o UsizeToString(count) \o " objects")])

\* the body of the relabelling loop; Err when the subtraction panics
Relabel(obj, stats, checks) ==
    Relabelled(obj, UsizeSub(stats.bytes, obj.bytes, checks), stats.count)

\* the relabelled graph, unless the loop panicked at a node
Pruned(relabelled, edges) ==
    IF \E n \in DOMAIN relabelled : ~relabelled[n].ok THEN Err
    ELSE Ok([nodes |-> [n \in DOMAIN relabelled |-> relabelled[n].value],
             edges |-> edges])

\* the graph of the nodes of `keep`: retain_edges and the relabelling loop
PrunedTo(g, sizes, keep, checks) ==
    Pruned([n \in keep |-> Relabel(g.nodes[n], sizes[g.nodes[n].address], checks)],
           RetainEdges(g.edges, keep))

\* Ok of the pruned graph, or Err when the call panics
relevant_subgraph(root, g, sizes, relevance_threshold, checks) ==
    PrunedTo(g, sizes,
             RetainNodes(g, sizes,
                         ThresholdBytes(sizes[g.nodes[root].address].bytes,
                                        relevance_threshold)),
             checks)

\* the outcomes of write_dot_file: Ok when the file holds the graph, Err when
\* File::create or write! fails
write_dot_file(g) == {Ok(g), Err}

\* --dot given; `arg` is the THRESHOLD argument: None, or Some of what
\* str::parse::<f64> returns for it, whose Err is unwrapped into a panic
Export(arg) ==
    /\ pc = "retained"
    /\ UNCHANGED <<dump, graph, indices, references, instances, names,
                   by_kind, subtree_sizes, output>>
    /\ IF IsSome(arg) /\ ~Unwrap(arg).ok
       THEN /\ pc' = "threshold_panicked"
            /\ UNCHANGED <<overflow_checks, threshold, subgraph>>
       ELSE \E t \in {IF IsSome(arg) THEN Unwrap(arg).value
                      ELSE DEFAULT_RELEVANCE_THRESHOLD} :
            \E with_checks \in {relevant_subgraph(1, graph, subtree_sizes, t, TRUE)} :
            \E without_checks \in
                  {IF with_checks.ok THEN with_checks
                   ELSE relevant_subgraph(1, graph, subtree_sizes, t, FALSE)} :
            \E checks \in Builds :
            \E dom_graph \in {IF checks THEN with_checks ELSE without_checks} :
                /\ overflow_checks' = Observed(checks, with_checks, without_checks)
                /\ IF ~dom_graph.ok
                   THEN pc' = "prune_panicked" /\ UNCHANGED <<threshold, subgraph>>
                   ELSE \E written \in write_dot_file(dom_graph.value) :
                           IF written.ok
                           THEN /\ pc' = "done"
                                /\ threshold' = Some(t)
                                /\ subgraph' = Some(written.value)
                           ELSE /\ pc' = "export_failed"
                                /\ UNCHANGED <<threshold, subgraph>>

\* no --dot: main returns after the second report
Finish ==
    /\ pc = "retained"
    /\ pc' = "done"
    /\ UNCHANGED <<overflow_checks, dump, graph, indices, references, instances, names, by_kind,
                   subtree_sizes, subgraph, threshold, output>>

-----------------------------------------------------------------------------
(* The input.  Lines are drawn one at a time as the file is read.  Every    *)
(* record that carries an address carries a fresh one: the k-th such record *)
(* has address k, so addresses are unique within a dump (spec, data model)  *)
(* while references and class pointers may point backward, forward, at the  *)
(* record itself, at the root, or at an address the dump never declares.    *)

\* "0x" and one lower-case hex digit
AddrText(n) == <<48, 120, IF n < 10 THEN 48 + n ELSE 87 + n>>

AddrTexts(ns) == [i \in 1..Len(ns) |-> AddrText(ns[i])]

BaseLine ==
    [malformed |-> FALSE, address |-> None, memsize |-> None, references |-> <<>>,
     object_type |-> "OBJECT", class |-> None, name |-> None, length |-> None,
     size |-> None, value |-> None]

NextAddress == Len(graph.nodes)

RECURSIVE Pow2(_)
Pow2(n) == IF n = 0 THEN 1 ELSE 2 * Pow2(n - 1)

\* Self sizes of the first objects of a dump of plain objects:
\* 0x3000000000000000, 0xC000000000000600 and 0x1000000000000000.  A sum of
\* them names the set it was taken over, the three together exceed 2^64,
\* and a sum that includes the second is not an f64; later objects have 1,
\* 2, ... bytes.
HeapSizes == <<Shl(<<3>>, 15), Shl(<<12>>, 12) \o <<6, 0, 0>>, Shl(<<1>>, 15)>>

GraphSize(k) == IF k <= Len(HeapSizes) THEN HeapSizes[k] ELSE HexOfNat(Pow2(k - 4))

\* the third object is of another kind than the others
GraphType(k) == IF k = 3 THEN "DATA" ELSE "OBJECT"

\* dumps of plain objects with varied reference lists
RootRefLists == {<<1>>, <<1, 2>>}
NodeRefLists == {<<1, 2>>, <<2, 3>>, <<3, 3>>}

GraphLines ==
    {[BaseLine EXCEPT !.object_type = "ROOT", !.references = AddrTexts(r)] :
        r \in RootRefLists}
    \cup
    {[BaseLine EXCEPT !.address = Some(AddrText(NextAddress)),
                      !.object_type = GraphType(NextAddress),
                      !.memsize = Some(GraphSize(NextAddress)),
                      !.references = AddrTexts(r)] : r \in NodeRefLists}

\* the self size of the k-th record of a parser dump, where it states one
ParserSize(k) == HexOfNat(Pow2(k - 1))

\* dumps that exercise the record parser: root records with and without an
\* address (the latter with a self size of 2^63 bytes), classes and
\* instances (an array of two, its class pointer written "0X02", that refers
\* to the root and twice to the class), labelled kinds (a string without
\* memsize whose value is a \ LF DEL e-acute b), the shapes
\* Line::parse rejects, and a reference "0x" that parse_address panics on
ParserLines ==
    { [BaseLine EXCEPT !.object_type = "ROOT", !.references = AddrTexts(<<1>>)],
      [BaseLine EXCEPT !.object_type = "ROOT", !.address = Some(AddrText(NextAddress)),
                       !.memsize = Some(Shl(<<8>>, 15)), !.references = AddrTexts(<<1>>)],
      [BaseLine EXCEPT !.object_type = "CLASS", !.address = Some(AddrText(NextAddress)),
                       !.memsize = Some(ParserSize(NextAddress)), !.name = Some("Foo")],
      [BaseLine EXCEPT !.object_type = "ARRAY", !.address = Some(AddrText(NextAddress)),
                       !.memsize = Some(ParserSize(NextAddress)),
                       !.class = Some(<<48, 88, 48, 50>>), !.length = Some(<<2>>),
                       !.references = AddrTexts(<<0, 2, 2>>)],
      [BaseLine EXCEPT !.object_type = "STRING", !.address = Some(AddrText(NextAddress)),
                       !.value = Some(<<97, 92, 10, 127, 233, 98>>)],
      [BaseLine EXCEPT !.malformed = TRUE],
      [BaseLine EXCEPT !.memsize = Some(<<1>>)],
      [BaseLine EXCEPT !.object_type = "ARRAY", !.address = Some(AddrText(NextAddress)),
                       !.memsize = Some(ParserSize(NextAddress))],
      [BaseLine EXCEPT !.object_type = "HASH", !.address = Some(AddrText(NextAddress)),
                       !.memsize = Some(ParserSize(NextAddress))],
      [BaseLine EXCEPT !.address = Some(AddrText(NextAddress)), !.memsize = Some(<<1>>),
                       !.references = <<<<48, 120>>>>] }

F64Zero == F64(FALSE, Zero, 0)
F64One == F64(FALSE, <<1>>, 0)
F64OneAndHalf == F64(FALSE, <<3>>, -1)

\* the THRESHOLD arguments of the parser dumps: none, and one that does not parse
ParserThresholdArgs == {None, Some(Err)}

\* the THRESHOLD arguments of the dumps of plain objects: one that parses to
\* 0, 1 or 1.5, and one that does not parse
GraphThresholdArgs == {Some(Ok(F64Zero)), Some(Ok(F64One)), Some(Ok(F64OneAndHalf)),
                       Some(Err)}

Main(args) ==
    \/ OpenFails
    \/ ReadFails
    \/ EndOfInput
    \/ StatsByKind
    \/ DominatorSubtreeSizes
    \/ \E arg \in args : Export(arg)
    \/ Finish

Next ==
    \/ \E line \in ParserLines : ReadLine(line)
    \/ Main(ParserThresholdArgs)

Spec == Init /\ [][Next]_vars

NextGraph ==
    \/ \E line \in GraphLines : ReadLine(line)
    \/ Main(GraphThresholdArgs)

SpecGraph == Init /\ [][NextGraph]_vars

-----------------------------------------------------------------------------
(* Vocabulary of the properties, defined on the dump and on the graph       *)
(* without the builder's tables or the dominator algorithm                  *)

Parsed == pc \notin {"lines", "open_failed", "read_panicked", "panicked"}
Ranked == by_kind # EmptyMap
Analysed == subtree_sizes # EmptyMap
Exported == pc = "done" /\ IsSome(subgraph)

NodeIds == 1..Len(graph.nodes)
Own(n) == graph.nodes[n].bytes
Retained(n) == subtree_sizes[graph.nodes[n].address]

\* nodes reachable from the root along paths that never enter `avoid`
RECURSIVE ReachAvoiding(_, _)
ReachAvoiding(seen, avoid) ==
    IF \A n \in seen : Successors(graph, n) \subseteq (seen \cup avoid) THEN seen
    ELSE ReachAvoiding(seen \cup ((UNION {Successors(graph, n) : n \in seen}) \ avoid),
                       avoid)

Reachable == ReachAvoiding({1}, {})

\* the nodes other than a that every path from the root passes through a to reach
DominatedAmong(reach, a) ==
    IF a = 1 THEN reach \ {1}
    ELSE reach \ (ReachAvoiding({1}, {a}) \cup {a})

DominatedBy(a) == DominatedAmong(Reachable, a)

\* the sum of the own bytes of the nodes of S, as a numeral of any length
RECURSIVE OwnBytes(_)
OwnBytes(S) ==
    IF S = {} THEN Zero
    ELSE LET n == CHOOSE x \in S : TRUE IN AddHex(Own(n), OwnBytes(S \ {n}))

OwnStats(S) == Stats(HexOfNat(Cardinality(S)), OwnBytes(S))

\* the own bytes of the nodes of S sum to less than 2^64
InRange(S) == Len(OwnBytes(S)) <= USIZE_HEX_DIGITS

\* the address a record declares (zero when it has none)
DeclaredAddress(line) ==
    IF IsSome(line.address) THEN parse_address(Unwrap(line.address)).value ELSE Zero

\* the records that declare a node, in file order: position in the dump and address
NodeLines == SelectSeq([j \in 1..Len(dump) |->
                           [at |-> j, address |-> DeclaredAddress(dump[j])]],
                       LAMBDA l : l.address # Zero)

\* index of the node of address a: the root, or the position of its record
\* among the node records, plus one; 0 when the dump declares no such node
NodeOf(lines, a) ==
    IF a = Zero THEN 1
    ELSE IF \E i \in 1..Len(lines) : lines[i].address = a
    THEN 1 + CHOOSE i \in 1..Len(lines) : lines[i].address = a
    ELSE 0

\* every declared reference: <<line, position>>
DeclaredRefs == UNION {{<<j, p>> : p \in 1..Len(dump[j].references)} : j \in 1..Len(dump)}
RefTarget(lines, u) == NodeOf(lines, parse_address(dump[u[1]].references[u[2]]).value)

\* number of edges of the full graph
EdgeTotal(edges) ==
    Cardinality(UNION {{<<v, p>> : p \in 1..Len(edges[v])} : v \in DOMAIN edges})

\* a threshold that is a short binary fraction, as numerator and denominator
ShortFraction(t) ==
    /\ t.class = "finite" /\ ~t.negative
    /\ Len(t.mantissa) <= 2 /\ t.exponent \in -8..0
Numerator(t) == IF Len(t.mantissa) = 0 THEN 0
                ELSE IF Len(t.mantissa) = 1 THEN t.mantissa[1]
                ELSE 16 * t.mantissa[1] + t.mantissa[2]
Denominator(t) == Pow2(-t.exponent)

\* number of bits from the first to the last 1 bit
SignificantBits(bits) ==
    IF bits = <<>> THEN 0
    ELSE CHOOSE i \in 1..Len(bits) : bits[i] = 1 /\ \A j \in (i + 1)..Len(bits) : bits[j] = 0

\* the bits of bytes * mantissa
ProductBits(bytes, mantissa) == BitsOfHex(MulHex(bytes, mantissa))

\* floor(bytes * t) in the integers, for a short fraction t
ExactFloor(bytes, t) == HexOfBits(Floor(ProductBits(bytes, t.mantissa), t.exponent))

\* bytes and bytes * t are f64 values and floor(bytes * t) is a usize
ExactInF64(bytes, t) ==
    /\ SignificantBits(BitsOfHex(bytes)) <= F64_MANTISSA_BITS
    /\ \A product \in {ProductBits(bytes, t.mantissa)} :
          /\ SignificantBits(product) <= F64_MANTISSA_BITS
          /\ Len(product) + t.exponent <= USIZE_BITS

-----------------------------------------------------------------------------
(* C1: for every node A reachable from the root, the retained-size table    *)
(* entry of A is A's own stats plus the own stats of exactly the nodes A    *)
(* dominates, each once.                                                    *)
C1_RetainedIsDominatedSum ==
    Analysed =>
        \A reach \in {Reachable} :
        \A a \in reach : Retained(a) = OwnStats({a} \cup DominatedAmong(reach, a))

(* C2: the root's entry is the sum of own stats over exactly the nodes      *)
(* reachable from the root, each once however many paths reach it.          *)
C2_RootRetainsReachable ==
    Analysed => Retained(1) = OwnStats(Reachable)

(* C1, C2 and C6 within the range of usize: when the own bytes of the       *)
(* reachable nodes sum to less than 2^64 the three claims hold; otherwise   *)
(* the build with overflow checks panics in dominator_subtree_sizes (when   *)
(* it has not already in stats_by_kind) and the build without them records  *)
(* the sums modulo 2^64.                                                    *)
RetainedSumsWithinRange ==
    /\ (Analysed /\ InRange(Reachable)) =>
          \A reach \in {Reachable} :
          \A n \in reach :
              /\ Retained(n) = OwnStats({n} \cup DominatedAmong(reach, n))
              /\ UsizeGe(Retained(n).bytes, Own(n))
              /\ \A d \in DominatedAmong(reach, n) :
                    UsizeGe(Retained(n).bytes, Retained(d).bytes)
    /\ pc = "retained_panicked" => ~InRange(Reachable)
    /\ (Analysed /\ ~InRange(Reachable)) =>
          /\ overflow_checks = Some(FALSE)
          /\ Retained(1) = Stats(HexOfNat(Cardinality(Reachable)),
                                 LowDigits(OwnBytes(Reachable)))

\* within range: a non-root node that dominates a node heavier than itself,
\* an unreachable node with bytes, and a node reached along two paths
RetainedSumsWithinRange_Witness ==
    /\ Analysed /\ InRange(Reachable)
    /\ \E n \in Reachable \ {1} : \E d \in DominatedBy(n) : UsizeLess(Own(n), Own(d))
    /\ \E u \in NodeIds \ Reachable : Own(u) # Zero
    /\ \E n \in Reachable :
          Cardinality({m \in Reachable : m # n /\ n \in Successors(graph, m)}) >= 2

(* C3: a record for which the parser returns "no object" (no address and    *)
(* not root-kind, ARRAY without length, HASH without size) is silently      *)
(* dropped: the run does not fail, the record creates no node, and the      *)
(* other records are still processed.                                       *)
C3_NoObjectSilentlyDropped ==
    (\A j \in 1..Len(dump) : ~dump[j].malformed /\ LineParse(dump[j]).ok) =>
        /\ pc # "panicked"
        /\ Len(graph.nodes) =
              1 + Cardinality({j \in 1..Len(dump) :
                                  /\ LineParse(dump[j]).value # None
                                  /\ ~is_root(Unwrap(LineParse(dump[j]).value).object)})

(* C4 as stated: with threshold 0 every reachable node is kept; with a      *)
(* threshold of 1.0 or higher the root survives and the only other          *)
(* survivors are nodes whose retained bytes equal the root's.               *)
C4_OnlyRootWeightSurvives ==
    Exported =>
        LET t == Unwrap(threshold)
            kept == DOMAIN Unwrap(subgraph).nodes
        IN  ShortFraction(t) =>
            /\ Numerator(t) = 0 => Reachable \subseteq kept
            /\ Numerator(t) >= Denominator(t) =>
                  /\ 1 \in kept
                  /\ \A n \in kept \ {1} : Retained(n).bytes = Retained(1).bytes

(* C4 amended: a node, reachable or not, survives iff the bytes of its      *)
(* table entry (its own bytes when it is unreachable) are at least          *)
(* threshold_bytes, so the survivors are closed under "at least as many     *)
(* bytes".  With threshold 0 every node is kept.  Where the f64 arithmetic  *)
(* is exact threshold_bytes is floor(root's table bytes * threshold): with  *)
(* threshold 1.0 the root survives together with the nodes whose table      *)
(* bytes are at least the root's, and with a threshold above 1.0 the root   *)
(* itself is removed whenever that floor exceeds its table bytes.           *)
C4_ThresholdSurvivors ==
    Exported =>
        \A t \in {Unwrap(threshold)} :
        \A kept \in {DOMAIN Unwrap(subgraph).nodes} :
        \A root_bytes \in {Retained(1).bytes} :
            /\ \A n \in kept : \A m \in NodeIds :
                  UsizeGe(Retained(m).bytes, Retained(n).bytes) => m \in kept
            /\ \A n \in NodeIds \ Reachable : Retained(n).bytes = Own(n)
            /\ ShortFraction(t) =>
                  /\ Numerator(t) = 0 => kept = NodeIds
                  /\ ExactInF64(root_bytes, t) =>
                        \A floor_bytes \in {ExactFloor(root_bytes, t)} :
                        /\ kept = {n \in NodeIds : UsizeGe(Retained(n).bytes, floor_bytes)}
                        /\ Numerator(t) = Denominator(t) => 1 \in kept
                        /\ UsizeLess(root_bytes, floor_bytes) => 1 \notin kept

\* threshold 1.0, exact in f64: a reachable non-root survivor, a reachable
\* node pruned, and an unreachable survivor that is heavier than everything
\* the root retains
C4_Witness ==
    /\ Exported
    /\ Unwrap(threshold) = F64One
    /\ ExactInF64(Retained(1).bytes, F64One)
    /\ LET kept == DOMAIN Unwrap(subgraph).nodes
       IN  /\ \E n \in (Reachable \ {1}) : n \in kept
           /\ \E n \in Reachable : n \notin kept
           /\ \E n \in kept \ Reachable : UsizeLess(Retained(1).bytes, Own(n))

(* C5: the pruned subgraph has no self-loop and no two edges with the same  *)
(* ordered pair of endpoints, and every ordered pair of distinct surviving  *)
(* nodes joined by an edge of the full graph keeps exactly one edge.        *)
C5_PrunedEdgesSimple ==
    Exported =>
        LET sub == Unwrap(subgraph)
            kept == DOMAIN sub.nodes
        IN  /\ \A e \in DOMAIN sub.edges :
                  e[1] # e[2] /\ sub.edges[e] = 1 /\ e[1] \in kept /\ e[2] \in kept
            /\ \A v \in kept, w \in kept :
                  (v # w /\ EdgeCount(graph.edges, <<v, w>>) >= 1)
                      => CopiesIn(<<v, w>>, sub.edges) = 1

\* parallel edges between two distinct survivors and a self-loop on a survivor
C5_Witness ==
    /\ Exported
    /\ LET kept == DOMAIN Unwrap(subgraph).nodes
       IN  /\ \E v \in kept, w \in kept :
                  v # w /\ EdgeCount(graph.edges, <<v, w>>) >= 2
           /\ \E v \in kept : EdgeCount(graph.edges, <<v, v>>) >= 1

(* C6: a reachable node retains at least its own bytes (the "b refs"        *)
(* subtraction of a surviving node's label never goes below zero) and at    *)
(* least the retained bytes of every node it strictly dominates.            *)
C6_RetainedMonotone ==
    /\ Analysed =>
          \A reach \in {Reachable} :
          \A n \in reach :
              /\ UsizeGe(Retained(n).bytes, Own(n))
              /\ \A d \in DominatedAmong(reach, n) :
                    UsizeGe(Retained(n).bytes, Retained(d).bytes)
    /\ pc # "prune_panicked"

\* the reference lists of the root-kind records read so far, in file order
RECURSIVE RootKindRefs(_)
RootKindRefs(j) ==
    IF j = 0 THEN <<>>
    ELSE RootKindRefs(j - 1) \o
         (IF dump[j].object_type = "ROOT"
          THEN [p \in 1..Len(dump[j].references) |->
                   parse_address(dump[j].references[p]).value]
          ELSE <<>>)

(* C7: after any sequence of valid records the graph has exactly one root   *)
(* node (address 0, first, root kind); every root-kind record only appends  *)
(* its references to the root's list and creates no node; every other node  *)
(* has a positive address; node count = 1 + number of non-root records.     *)
C7_SingleRootMergesRootRecords ==
    pc # "panicked" =>
        /\ graph.nodes[1].address = Zero /\ graph.nodes[1].kind = "ROOT"
        /\ \A i \in 2..Len(graph.nodes) : graph.nodes[i].address # Zero
        /\ references[Zero] = RootKindRefs(Len(dump))
        /\ Len(graph.nodes) =
              1 + Cardinality({j \in 1..Len(dump) : dump[j].object_type # "ROOT"})

(* C8: the edges of the full graph are exactly the declared references,     *)
(* with multiplicity, whose target is a node declared anywhere in the dump  *)
(* (before or after the referrer); a dangling reference yields no edge, so  *)
(* the edge count is at most the number of declared references and          *)
(* strictly less when one dangles.                                          *)
C8_EdgesAreResolvedReferences ==
    Parsed =>
        \A address \in {[j \in 1..Len(dump) |-> DeclaredAddress(dump[j])]} :
        \A refs \in {DeclaredRefs} :
        \A target \in {[u \in refs |-> parse_address(dump[u[1]].references[u[2]]).value]} :
        \* the root, or one plus the number of node records up to the declaring one
        \A index \in {[a \in {address[j] : j \in 1..Len(dump)} \cup {Zero} |->
                         IF a = Zero THEN 1
                         ELSE LET j == CHOOSE i \in 1..Len(dump) : address[i] = a
                              IN  1 + Cardinality({i \in 1..j : address[i] # Zero})]} :
        \A edge \in {[u \in {r \in refs : target[r] \in DOMAIN index} |->
                         <<index[address[u[1]]], index[target[u]]>>]} :
            /\ \A e \in EdgePairs(graph.edges) \cup {edge[u] : u \in DOMAIN edge} :
                  EdgeCount(graph.edges, e) = Cardinality({u \in DOMAIN edge : edge[u] = e})
            /\ EdgeTotal(graph.edges) <= Cardinality(refs)
            /\ DOMAIN edge # refs => EdgeTotal(graph.edges) < Cardinality(refs)

\* a dangling reference, a reference to a node declared later, and a parallel edge
C8_Witness ==
    /\ Parsed
    /\ \E u \in DeclaredRefs : RefTarget(NodeLines, u) = 0
    /\ \E u \in DeclaredRefs :
          /\ RefTarget(NodeLines, u) > 1
          /\ NodeLines[RefTarget(NodeLines, u) - 1].at > u[1]
    /\ \E e \in EdgePairs(graph.edges) : EdgeCount(graph.edges, e) >= 2

(* C9: when a line fails to decode the run aborts there and nothing has     *)
(* been emitted: no report printed, no retained sizes computed, no export   *)
(* written; output happens only after the whole input was parsed.           *)
C9_NoPartialResults ==
    /\ (\E j \in 1..Len(dump) : dump[j].malformed) =>
          /\ pc = "panicked"
          /\ dump[Len(dump)].malformed
          /\ output = <<>>
          /\ by_kind = EmptyMap /\ subtree_sizes = EmptyMap /\ subgraph = None
    /\ (output # <<>> \/ subtree_sizes # EmptyMap \/ subgraph # None) =>
          /\ pc \in {"kinds", "kinds_panicked", "retained", "retained_panicked",
                    "stdout_panicked", "done", "threshold_panicked", "prune_panicked",
                    "export_failed"}
          /\ \A j \in 1..Len(dump) : ~dump[j].malformed

\* the run aborted on a malformed line that came after records already in the graph
C9_Witness ==
    /\ pc = "panicked"
    /\ dump[Len(dump)].malformed
    /\ Len(graph.nodes) > 1
    /\ references[Zero] # <<>>

\* the name declared by the record of address a, if the dump has one
NameOfNode(lines, a, n) == IF a # Zero /\ n # 0 THEN dump[lines[n - 1].at].name ELSE None
DeclaredName(lines, a) == NameOfNode(lines, a, NodeOf(lines, a))

\* the kind the record at line j should end up with
ResolvedKindOf(lines, j) ==
    IF IsSome(dump[j].class)
    THEN \* the declared class/module address, and the name its record declares
         LET named == DeclaredName(lines, parse_address(Unwrap(dump[j].class)).value)
         IN  IF IsSome(named) THEN Unwrap(named) ELSE dump[j].object_type
    ELSE dump[j].object_type

NodesOfKind(k) == {n \in NodeIds : graph.nodes[n].kind = k}

====
